---- MODULE Spec2Model ----
(***************************************************************************)
(* Model of music_bot.py: the join / leave / play / pause / resume command *)
(* handlers of a discord.py voice bot, and YTDLSource.from_url.             *)
(*                                                                         *)
(* A "session" of the specification is the VoiceClient object that          *)
(* channel.connect() creates; the "registry" is the per-guild table behind  *)
(* ctx.voice_client.  The handlers are coroutines of one event loop: a      *)
(* handler runs atomically up to an await that really suspends, which are   *)
(* channel.connect() (line 99) and the run_in_executor of from_url (line    *)
(* 61).  Every action below is one such atomic piece.                       *)
(***************************************************************************)
EXTENDS Integers, Sequences, FiniteSets, Bags, TLC

\* ---------------------------------------------------------------- bounds
\* VoiceClient objects of one guild that exist at the same time: the
\* registered one and the disconnected ones a suspended invocation still
\* refers to.
MaxClients == 2
\* Command invocations suspended at an await at the same time.
MaxTasks == 2
\* Longest 'entries' list the media backend returns.
MaxEntries == 2

Guilds == {"G1", "G2"}
Channels == {"channelA", "channelB"}

\* A VoiceClient object is named by its guild and a number; NoClient is
\* the None of ctx.voice_client.
NoClient == <<>>
Clients == Guilds \X (1..MaxClients)

NoChannel == "no_channel"
NoTrack == <<>>

\* ------------------------------------------------------- media backend
\* An entry of the backend: the metadata dictionary of one media item, the
\* n-th item the backend knows.  hasUrl is whether the dictionary has the
\* 'url' key that line 68 reads.
Entry == [n : 1..MaxEntries, hasUrl : {TRUE}] \cup [n : {1}, hasUrl : {FALSE}]

RECURSIVE SeqsUpTo(_, _)
SeqsUpTo(S, n) ==
    IF n = 0 THEN {<<>>}
    ELSE LET shorter == SeqsUpTo(S, n - 1)
         IN shorter \cup {Append(s, e) : s \in {x \in shorter : Len(x) = n - 1}, e \in S}

\* What ytdl.extract_info(url) can produce for a query: an exception, a
\* dictionary with an 'entries' list (playlist or search result), or the
\* dictionary of a single item.  The backend is external: which of these a
\* query gets is its choice.
ExtractInfo ==
    {[kind |-> "error"]}
      \cup {[kind |-> "entries", entries |-> s] : s \in SeqsUpTo(Entry, MaxEntries)}
      \cup {[kind |-> "single", data |-> e] : e \in Entry}

\* The track a player holds: the title of the entry it was built from.
Title(e) == <<"title", e.n>>

\* The exception that leaves from_url on the backend result, "none" when
\* it returns: the backend's own error out of extract_info (line 61),
\* IndexError from data['entries'][0] on an empty list (line 65), KeyError
\* from data['url'] (line 68).
Raised(res) ==
    IF res.kind = "error" THEN "DownloadError"
    ELSE IF res.kind = "entries" /\ Len(res.entries) = 0 THEN "IndexError"
    ELSE LET data == IF res.kind = "entries" THEN res.entries[1] ELSE res.data
         IN IF data.hasUrl THEN "none" ELSE "KeyError"

\* from_url taking the last entry of the list instead of the first.
from_url_LastEntry(res) ==
    IF res.kind = "error" THEN [ok |-> FALSE, track |-> NoTrack]
    ELSE LET data == IF res.kind = "entries" THEN res.entries ELSE <<res.data>>
         IN IF Len(data) = 0 THEN [ok |-> FALSE, track |-> NoTrack]
            ELSE IF data[Len(data)].hasUrl
                 THEN [ok |-> TRUE, track |-> Title(data[Len(data)])]
            ELSE [ok |-> FALSE, track |-> NoTrack]

\* YTDLSource.from_url on the backend result: [ok, track].  ok = FALSE is
\* an exception leaving from_url (the backend's error, IndexError on an
\* empty entries list, KeyError on a missing 'url').
from_url(res) ==
    IF res.kind = "error" THEN [ok |-> FALSE, track |-> NoTrack]
    ELSE LET data == IF res.kind = "entries" THEN res.entries ELSE <<res.data>>
         IN IF Len(data) = 0 THEN [ok |-> FALSE, track |-> NoTrack]
            ELSE IF data[1].hasUrl THEN [ok |-> TRUE, track |-> Title(data[1])]
            ELSE [ok |-> FALSE, track |-> NoTrack]

\* ----------------------------------------------------------------- state
VARIABLES
    voice_clients,  \* guild -> its registered VoiceClient (ctx.voice_client), or NoClient
    clients,        \* VoiceClient object -> its fields
    tasks,          \* bag of the suspended command invocations
    ev              \* the step just taken and what it told the caller

vars == <<voice_clients, clients, tasks, ev>>

\* conn: "unalloc" (object not created yet), "connecting" (registered by
\* channel.connect(), handshake pending), "connected", and, once closed,
\* "left" (by leave()) or "failed" (by a channel.connect() that raised).
\* player: "none" (no AudioPlayer, or one whose stream has ended),
\* "playing", "paused"; track is the source of an active player.
FreshClient == [channel |-> NoChannel, conn |-> "unalloc", player |-> "none",
                track |-> NoTrack]

\* A suspended invocation.  pc: "connect" (awaiting channel.connect(),
\* line 99), "resolve" (awaiting from_url, line 136).  cl: for "connect"
\* the client being connected; for "resolve" the client line 129 checked.
Task(pc, cmd, g, c) == [pc |-> pc, cmd |-> cmd, guild |-> g, cl |-> c]
Suspend(tk, task) == tk (+) SetToBag({task})
Finish(tk, task) == tk (-) SetToBag({task})

\* at: where the invocation of cmd was when the step ran ("call": the
\* handler's first piece; "connected" / "connect_failed": channel.connect()
\* returned / raised; "resolved": from_url returned or raised;
\* "stream_end": the player's after callback).  msg: the last message the
\* step sent with ctx.send.  fault: an exception left the handler.
\* done: the invocation ended in this step.  log: what the step printed.
Event(cmd, g, at, msg, fault, done, log) ==
    [cmd |-> cmd, guild |-> g, at |-> at, msg |-> msg, fault |-> fault,
     done |-> done, log |-> log]

Init ==
    /\ voice_clients = [g \in Guilds |-> NoClient]
    /\ clients = [c \in Clients |-> FreshClient]
    /\ tasks = EmptyBag
    /\ ev = Event("none", "no_guild", "init", "none", FALSE, FALSE, "none")

\* ------------------------------------------------- the voice client (SDK)
is_playing(cls, c) == cls[c].player = "playing"
is_paused(cls, c) == cls[c].player = "paused"
is_connected(cls, c) == cls[c].conn = "connected"

\* VoiceClient.stop(): drops the player and its source.
stop(cls, c) == [cls EXCEPT ![c].player = "none", ![c].track = NoTrack]

\* VoiceClient.disconnect(): stops the player, closes the connection.
\* how is who called it: "left" or "failed".
Closed == {"left", "failed"}
disconnect(cls, c, how) ==
    [stop(cls, c) EXCEPT ![c].conn = how, ![c].channel = NoChannel]

\* A registry that is one slot for the whole process: dropping a guild's
\* client drops every guild's.
unregister_All(vcs, g) == [h \in Guilds |-> NoClient]

\* The registry side of disconnect(): cleanup() drops the guild's entry.
unregister(vcs, g) == [vcs EXCEPT ![g] = NoClient]

\* A move that restarts the client: its player and track are dropped.
move_to_Restart(cls, c, ch) ==
    [cls EXCEPT ![c].channel = ch, ![c].player = "none", ![c].track = NoTrack]

\* VoiceClient.move_to(channel): the same client, in another channel.
move_to(cls, c, ch) == [cls EXCEPT ![c].channel = ch]

\* The object channel.connect() creates next.
Unallocated(g) == {c \in Clients : c[1] = g /\ clients[c].conn = "unalloc"}
NewClient(g) == CHOOSE c \in Unallocated(g) : \A d \in Unallocated(g) : c[2] <= d[2]

\* channel.connect() that does not record the channel it connects to.
connect_NoChannel(cls, c, ch) ==
    [cls EXCEPT ![c] = [channel |-> NoChannel, conn |-> "connecting", player |-> "none",
                        track |-> NoTrack]]

\* channel.connect() up to its first suspension: the new client is
\* created and registered for the guild, its handshake pending.
connect(cls, c, ch) ==
    [cls EXCEPT ![c] = [channel |-> ch, conn |-> "connecting", player |-> "none",
                        track |-> NoTrack]]
register(vcs, g, c) == [vcs EXCEPT ![g] = c]

\* A disconnected client that no suspended invocation still refers to is
\* gone: its identity is free for the next channel.connect().
Collect(cls, tk) ==
    [c \in Clients |->
        IF cls[c].conn \in Closed /\ \A t \in BagToSet(tk) : t.cl # c
        THEN FreshClient ELSE cls[c]]

\* Whether the task table tk has room for one more suspended invocation.
HasRoom(tk) == BagCardinality(tk) < MaxTasks

\* --------------------------------------------------------------- handlers
\* join without the test of line 95: it connects whether or not the guild
\* has a client.
JoinBranch_NoClientTest(vcs, g, ach) ==
    IF ach = NoChannel THEN "not_in_voice" ELSE "connect"

\* join, lines 90-99: which way the handler goes for a caller whose voice
\* channel is ach (NoChannel: ctx.author.voice is None).
JoinBranch(vcs, g, ach) ==
    IF ach = NoChannel THEN "not_in_voice"
    ELSE IF vcs[g] # NoClient THEN "move"
    ELSE "connect"

\* play whose test of line 129 takes a missing client for an idle one.
PlayCheck_NoneIsIdle(vcs, cls, g) ==
    IF vcs[g] # NoClient /\ (is_playing(cls, vcs[g]) \/ is_paused(cls, vcs[g]))
    THEN "busy" ELSE "go"

\* play, lines 129-130, on the state the handler sees there.  "fault": the
\* attribute access on ctx.voice_client = None raises outside any try.
PlayCheck(vcs, cls, g) ==
    IF vcs[g] = NoClient THEN "fault"
    ELSE IF is_playing(cls, vcs[g]) \/ is_paused(cls, vcs[g]) THEN "busy"
    ELSE "go"

\* play, line 139: ctx.voice_client.play(player, ...).  Everything but
\* "start" is an exception raised inside the try of line 132.
PlayStart(vcs, cls, g) ==
    IF vcs[g] = NoClient THEN "no_client"
    ELSE IF ~is_connected(cls, vcs[g]) THEN "not_connected"
    ELSE IF is_playing(cls, vcs[g]) THEN "already_playing"
    ELSE "start"

LeaveBranch(vcs, g) == IF vcs[g] # NoClient THEN "disconnect" ELSE "absent"
\* pause and resume that only test for a client (lines 151 and 161
\* without their is_playing() / is_paused()).
PauseBranch_NoStateTest(vcs, cls, g) ==
    IF vcs[g] # NoClient THEN "pause" ELSE "refuse"
ResumeBranch_NoStateTest(vcs, cls, g) ==
    IF vcs[g] # NoClient THEN "resume" ELSE "refuse"

PauseBranch(vcs, cls, g) ==
    IF vcs[g] # NoClient /\ is_playing(cls, vcs[g]) THEN "pause" ELSE "refuse"
ResumeBranch(vcs, cls, g) ==
    IF vcs[g] # NoClient /\ is_paused(cls, vcs[g]) THEN "resume" ELSE "refuse"

\* The rest of play from line 128 on, run on state (vcs, cls); tk is the
\* task table without this invocation.
PlayFrom128(tk, g, vcs, cls, at, sent) ==
    LET chk == PlayCheck(vcs, cls, g) IN
    /\ CASE chk = "fault" ->
              /\ tasks' = tk
              /\ ev' = Event("play", g, at, sent, TRUE, TRUE, "none")
         [] chk = "busy" ->
              /\ tasks' = tk
              /\ ev' = Event("play", g, at, "AlreadyPlaying", FALSE, TRUE, "none")
         [] chk = "go" ->
              /\ HasRoom(tk)
              /\ tasks' = Suspend(tk, Task("resolve", "play", g, vcs[g]))
              /\ ev' = Event("play", g, at, sent, FALSE, FALSE, "none")
    /\ voice_clients' = vcs
    /\ clients' = Collect(cls, tasks')

\* channel.connect(), line 99, up to the await of the handshake, for the
\* invocation of cmd.
JoinConnect(cmd, g, ach) ==
    /\ Unallocated(g) # {} /\ HasRoom(tasks)
    /\ clients' = connect(clients, NewClient(g), ach)
    /\ voice_clients' = register(voice_clients, g, NewClient(g))
    /\ tasks' = Suspend(tasks, Task("connect", cmd, g, NewClient(g)))
    /\ ev' = Event(cmd, g, "call", "none", FALSE, FALSE, "none")

\* join(ctx), lines 88-100, up to the await of channel.connect().
join(g, ach) ==
    LET br == JoinBranch(voice_clients, g, ach) IN
    CASE br = "not_in_voice" ->
           /\ ev' = Event("join", g, "call", "NotInVoiceChannel", FALSE, TRUE, "none")
           /\ UNCHANGED <<voice_clients, clients, tasks>>
      [] br = "move" ->
           /\ clients' = move_to(clients, voice_clients[g], ach)
           /\ ev' = Event("join", g, "call", "none", FALSE, TRUE, "none")
           /\ UNCHANGED <<voice_clients, tasks>>
      [] br = "connect" -> JoinConnect("join", g, ach)

\* play without its lines 121-126: it never joins by itself.
play_NoAutoJoin(g, ach) ==
    PlayFrom128(tasks, g, voice_clients, clients, "call", "none")

\* play(ctx, query), lines 118-136, up to its first suspension; the query
\* is only handed to the backend, whose answer Resolved draws.  With no
\* voice client it runs join(ctx) first (line 124), which cannot take its
\* move branch there.
play(g, ach) ==
    IF voice_clients[g] = NoClient
    THEN IF JoinBranch(voice_clients, g, ach) = "not_in_voice"
         THEN \* join sends its message and returns; line 129 then runs
              PlayFrom128(tasks, g, voice_clients, clients, "call",
                          "NotInVoiceChannel")
         ELSE JoinConnect("play", g, ach)
    ELSE PlayFrom128(tasks, g, voice_clients, clients, "call", "none")

\* channel.connect() returns to the suspended invocation t: the handshake is
\* done (unless the client was disconnected meanwhile), join sends
\* "Connected" (line 100), and a play goes on with line 128.
ConnectDone(t) ==
    LET c == t.cl
        g == t.guild
        cls == IF clients[c].conn = "connecting"
               THEN [clients EXCEPT ![c].conn = "connected"] ELSE clients
        tk == Finish(tasks, t)
    IN /\ t.pc = "connect"
       /\ IF t.cmd = "join"
          THEN /\ clients' = Collect(cls, tk)
               /\ tasks' = tk
               /\ ev' = Event("join", g, "connected", "Connected", FALSE, TRUE, "none")
               /\ UNCHANGED voice_clients
          ELSE PlayFrom128(tk, g, voice_clients, cls, "connected", "Connected")

\* channel.connect() raises (the handshake timed out): the SDK disconnects
\* the client it had registered.  join has no handler for it; play's
\* except of line 125 sends its message and returns.
ConnectFail(t) ==
    LET c == t.cl
        g == t.guild
    IN /\ t.pc = "connect"
       /\ clients[c].conn = "connecting"
       /\ clients' = Collect(disconnect(clients, c, "failed"), Finish(tasks, t))
       /\ voice_clients' = unregister(voice_clients, g)
       /\ tasks' = Finish(tasks, t)
       /\ ev' = IF t.cmd = "join"
                THEN Event("join", g, "connect_failed", "none", TRUE, TRUE, "none")
                ELSE Event("play", g, "connect_failed", "NeedVoiceChannel", FALSE, TRUE,
                           "none")

\* Every way the await of line 136 can end: from_url over every answer of
\* the backend.
Resolutions == {from_url(res) : res \in ExtractInfo}

\* from_url returns or raises (r) for the suspended play t; lines 136-145
\* then run without suspension.
Resolved(t, r) ==
    LET g == t.guild
        started == r.ok /\ PlayStart(voice_clients, clients, g) = "start"
    IN /\ t.pc = "resolve"
       /\ tasks' = Finish(tasks, t)
       /\ UNCHANGED voice_clients
       /\ IF started
          THEN /\ clients' = Collect([clients EXCEPT
                                         ![voice_clients[g]].player = "playing",
                                         ![voice_clients[g]].track = r.track], tasks')
               /\ ev' = Event("play", g, "resolved", "NowPlaying", FALSE, TRUE, "none")
          ELSE /\ clients' = Collect(clients, tasks')
               /\ ev' = Event("play", g, "resolved", "ResolutionFailed", FALSE, TRUE,
                              "play_error")

\* leave with disconnect() under the is_playing() test of line 108: an
\* idle or paused client stays connected.
leave_result_DisconnectIfPlaying(vcs, cls, g) ==
    IF vcs[g] # NoClient
    THEN [voice_clients |-> IF is_playing(cls, vcs[g]) THEN unregister(vcs, g) ELSE vcs,
          clients |-> IF is_playing(cls, vcs[g])
                      THEN disconnect(stop(cls, vcs[g]), vcs[g], "left") ELSE cls,
          msg |-> "Disconnected"]
    ELSE [voice_clients |-> vcs, clients |-> cls, msg |-> "NotConnected"]

\* leave without the else of lines 113-114: it reports a disconnection
\* whether or not the guild had a client.
leave_result_NoAbsentBranch(vcs, cls, g) ==
    [voice_clients |-> unregister(vcs, g),
     clients |-> IF vcs[g] # NoClient
                 THEN disconnect(IF is_playing(cls, vcs[g]) THEN stop(cls, vcs[g]) ELSE cls,
                                 vcs[g], "left")
                 ELSE cls,
     msg |-> "Disconnected"]

\* leave(ctx), lines 104-114, as a function of the state: the registry and
\* the clients afterwards and the message sent.
leave_result(vcs, cls, g) ==
    IF LeaveBranch(vcs, g) = "disconnect"
    THEN LET c == vcs[g]
             stopped == IF is_playing(cls, c) THEN stop(cls, c) ELSE cls
         IN [voice_clients |-> unregister(vcs, g),
             clients |-> disconnect(stopped, c, "left"),
             msg |-> "Disconnected"]
    ELSE [voice_clients |-> vcs, clients |-> cls, msg |-> "NotConnected"]

leave(g) ==
    LET r == leave_result(voice_clients, clients, g)
    IN /\ voice_clients' = r.voice_clients
       /\ clients' = Collect(r.clients, tasks)
       /\ ev' = Event("leave", g, "call", r.msg, FALSE, TRUE, "none")
       /\ UNCHANGED tasks

\* pause(ctx), lines 149-155, as a function of the state: the clients
\* afterwards and the message sent.
pause_result(vcs, cls, g) ==
    IF PauseBranch(vcs, cls, g) = "pause"
    THEN [clients |-> [cls EXCEPT ![vcs[g]].player = "paused"], msg |-> "Paused"]
    ELSE [clients |-> cls, msg |-> "InvalidState"]

pause(g) ==
    LET r == pause_result(voice_clients, clients, g)
    IN /\ clients' = r.clients
       /\ ev' = Event("pause", g, "call", r.msg, FALSE, TRUE, "none")
       /\ UNCHANGED <<voice_clients, tasks>>

\* resume(ctx), lines 159-165, likewise.
resume_result(vcs, cls, g) ==
    IF ResumeBranch(vcs, cls, g) = "resume"
    THEN [clients |-> [cls EXCEPT ![vcs[g]].player = "playing"], msg |-> "Resumed"]
    ELSE [clients |-> cls, msg |-> "InvalidState"]

resume(g) ==
    LET r == resume_result(voice_clients, clients, g)
    IN /\ clients' = r.clients
       /\ ev' = Event("resume", g, "call", r.msg, FALSE, TRUE, "none")
       /\ UNCHANGED <<voice_clients, tasks>>

\* The stream of a playing client ends (end of stream, or a transport
\* error err): the player thread finishes, cleans its source up and calls
\* the after callback of line 139, which prints the error if there is one.
StreamEnd(c, err) ==
    /\ is_playing(clients, c)
    /\ clients' = stop(clients, c)
    /\ ev' = Event("none", c[1], "stream_end", "none", FALSE, FALSE,
                   IF err THEN "player_error" ELSE "none")
    /\ UNCHANGED <<voice_clients, tasks>>

\* ------------------------------------------- the session, as the spec sees it
HasSession(g) == voice_clients[g] # NoClient

\* A play() that passed the check of line 129 on the guild's present
\* client is still awaiting the resolver.
Resolving(g) ==
    \E t \in BagToSet(tasks) : t.pc = "resolve" /\ t.cl = voice_clients[g]

\* The state of the guild's session: the code keeps no state field, the
\* state is what is_playing(), is_paused() and the pending await say.
State(g) ==
    IF ~HasSession(g) THEN "Removed"
    ELSE IF is_playing(clients, voice_clients[g]) THEN "Playing"
    ELSE IF is_paused(clients, voice_clients[g]) THEN "Paused"
    ELSE IF Resolving(g) THEN "Resolving"
    ELSE "Idle"

CurrentTrack(g) ==
    IF HasSession(g) THEN clients[voice_clients[g]].track ELSE NoTrack

\* The transports of guild g that are open or opening.
Live(g) == {c \in Clients : c[1] = g /\ clients[c].conn \in {"connecting", "connected"}}

\* The steps of the guilds in G: the commands their members issue, the
\* completions of their suspended invocations, the ends of their streams.
Serve(G) ==
    \/ \E g \in G, ach \in Channels \cup {NoChannel} : join(g, ach)
    \/ \E g \in G, ach \in Channels \cup {NoChannel} : play(g, ach)
    \/ \E g \in G : leave(g)
    \/ \E g \in G : pause(g)
    \/ \E g \in G : resume(g)
    \/ \E t \in BagToSet(tasks) : t.guild \in G /\ ConnectDone(t)
    \/ \E t \in BagToSet(tasks) : t.guild \in G /\ ConnectFail(t)
    \/ \E t \in BagToSet(tasks), r \in Resolutions : t.guild \in G /\ Resolved(t, r)
    \/ \E c \in Clients, err \in BOOLEAN : c[1] \in G /\ StreamEnd(c, err)

\* The bot used in one guild.
Next == Serve({"G1"})
Spec == Init /\ [][Next]_vars

\* The bot used in every guild at once.
NextGuilds == Serve(Guilds)
SpecGuilds == Init /\ [][NextGuilds]_vars

\* The executor thread of line 61 ends: extract_info returns or raises,
\* the future of run_in_executor is done and the event loop resumes the
\* suspended play t.
ResolverReturns(t) ==
    t \in BagToSet(tasks) /\ \E r \in Resolutions : Resolved(t, r)

\* The invocations that can be suspended at line 136 in the one-guild bot.
ResolveTasks ==
    {Task("resolve", "play", "G1", c) : c \in {d \in Clients : d[1] = "G1"}}

\* The one-guild bot with a resolver that always ends: no suspended play
\* waits for from_url forever.
SpecFair == Spec /\ \A t \in ResolveTasks : WF_vars(ResolverReturns(t))

\* ------------------------------------------------------------------ claims
\* A step of the invocation of cmd for guild g, at position at.
StepOf(cmd, g, at) == ev'.cmd = cmd /\ ev'.guild = g /\ ev'.at = at

\* C1: a play() issued while the session is Resolving, Playing or Paused
\* fails with AlreadyPlaying.
C1_ConcurrentPlayRejected ==
    [][\A g \in Guilds :
          (StepOf("play", g, "call") /\ State(g) \in {"Resolving", "Playing", "Paused"})
              => ev'.msg = "AlreadyPlaying"]_vars

\* C2: the track resolved for a play() is never started when the session
\* the play() began resolving on has left since, a new session of the
\* same guild or not.
C2_StaleResultDiscarded ==
    [][\A t \in BagToSet(tasks) :
          (/\ t.pc = "resolve"
           /\ StepOf("play", t.guild, "resolved")
           /\ tasks' = Finish(tasks, t)
           /\ clients[t.cl].conn = "left")
              => ev'.msg # "NowPlaying" /\ \A c \in Clients : clients'[c].player = clients[c].player]_vars

\* C3: leave() on an existing session, whatever its state, stops the
\* stream, disconnects the transport and removes the session: afterwards
\* the guild has no session and no open transport.
C3_LeaveRemovesSession ==
    [][\A g \in Guilds :
          (StepOf("leave", g, "call") /\ HasSession(g))
              => /\ ev'.msg = "Disconnected"
                 /\ ~HasSession(g)'
                 /\ Live(g)' = {}
                 /\ \A c \in Clients : c[1] = g => clients'[c].player = "none"]_vars

\* A leave() has just removed a session that was playing or resolving.
C3_Witness ==
    /\ ev.cmd = "leave" /\ ev.msg = "Disconnected"
    /\ \E t \in BagToSet(tasks) : t.pc = "resolve" /\ t.guild = ev.guild

C5_NoUnhandledFault == ev.done => ~ev.fault

\* C6: pause() succeeds exactly from Playing and resume() exactly from
\* Paused; otherwise the call sends InvalidState and changes neither the
\* state nor the current track.
C6_PauseResumeGuard ==
    [][\A g \in Guilds :
          /\ StepOf("pause", g, "call") =>
                IF State(g) = "Playing"
                THEN ev'.msg = "Paused" /\ State(g)' = "Paused"
                ELSE /\ ev'.msg = "InvalidState"
                     /\ State(g)' = State(g) /\ CurrentTrack(g)' = CurrentTrack(g)
          /\ StepOf("resume", g, "call") =>
                IF State(g) = "Paused"
                THEN ev'.msg = "Resumed" /\ State(g)' = "Playing"
                ELSE /\ ev'.msg = "InvalidState"
                     /\ State(g)' = State(g) /\ CurrentTrack(g)' = CurrentTrack(g)]_vars

\* A pause() has just been refused on a session that is Resolving.
C6_Witness ==
    ev.cmd = "pause" /\ ev.msg = "InvalidState" /\ State(ev.guild) = "Resolving"

\* C7: from Playing, pause() then resume() gives Playing with the same
\* track, and a second resume() right after sends InvalidState and leaves
\* the session as it is.
C7_PauseResumeRoundTrip ==
    \A g \in Guilds :
        State(g) = "Playing" =>
            LET p == pause_result(voice_clients, clients, g)
                r == resume_result(voice_clients, p.clients, g)
                again == resume_result(voice_clients, r.clients, g)
            IN /\ p.msg = "Paused" /\ is_paused(p.clients, voice_clients[g])
               /\ r.msg = "Resumed" /\ r.clients = clients
               /\ again.msg = "InvalidState" /\ again.clients = clients

\* A resume() has just brought a paused session back to Playing.
C7_Witness ==
    ev.cmd = "resume" /\ ev.msg = "Resumed" /\ State(ev.guild) = "Playing"

\* C8: a guild never has two sessions: its open or opening transports are
\* at most the one the registry holds, so a join or play on a guild with a
\* session has used that session.
C8_OneSessionPerGuild ==
    \A g \in Guilds :
        /\ Live(g) \subseteq {voice_clients[g]}
        /\ Cardinality(Live(g)) <= 1
        /\ HasSession(g) => voice_clients[g] \in Live(g)

\* A second join has just been served by the client of a first join that
\* is still connecting.
C8_Witness ==
    /\ ev.cmd = "join" /\ ev.at = "call" /\ ev.done /\ ev.msg = "none"
    /\ \E t \in BagToSet(tasks) :
          t.pc = "connect" /\ t.guild = ev.guild /\ clients[t.cl].conn = "connecting"

\* C9: when the resolver fails for a play() of the present session, the
\* session is Idle afterwards with no current track, the play() sends
\* ResolutionFailed, and the next play() passes the check of line 129.
C9_FailedResolutionReturnsIdle ==
    [][\A t \in BagToSet(tasks) :
          (/\ t.cl = voice_clients[t.guild]
           /\ \E r \in Resolutions : ~r.ok /\ Resolved(t, r))
              => /\ ev'.msg = "ResolutionFailed"
                 /\ State(t.guild)' = "Idle"
                 /\ CurrentTrack(t.guild)' = NoTrack
                 /\ PlayCheck(voice_clients', clients', t.guild) = "go"]_vars

\* C10: when the stream of a Playing session ends, the session is Idle
\* afterwards, still registered and connected, the next play() passes the
\* check of line 129, and nothing is sent or raised to a caller.
C10_StreamEndReturnsIdle ==
    [][\A g \in Guilds :
          (StepOf("none", g, "stream_end") /\ State(g) = "Playing")
              => /\ State(g)' = "Idle"
                 /\ voice_clients'[g] = voice_clients[g]
                 /\ is_connected(clients', voice_clients[g])
                 /\ PlayCheck(voice_clients', clients', g) = "go"
                 /\ ev'.msg = "none" /\ ~ev'.fault]_vars

\* C11: leave() for a guild that has no session sends NotConnected and
\* changes nothing: the registry, every client (so every other guild's
\* session) and the suspended invocations are as before, no session is
\* created, and a leave() repeated on the state it leaves is refused the
\* same way.
C11_LeaveAbsentRefused ==
    [][\A g \in Guilds :
          (StepOf("leave", g, "call") /\ ~HasSession(g))
              => /\ ev'.msg = "NotConnected" /\ ev'.done /\ ~ev'.fault
                 /\ UNCHANGED <<voice_clients, clients, tasks>>
                 /\ ~HasSession(g)'
                 /\ \A h \in Guilds \ {g} :
                       State(h)' = State(h) /\ CurrentTrack(h)' = CurrentTrack(h)
                 /\ leave_result(voice_clients', clients', g)
                       = [voice_clients |-> voice_clients', clients |-> clients',
                          msg |-> "NotConnected"]]_vars

\* A leave() has just been refused for a guild without a session while
\* another guild has a session that is playing.
C11_Witness ==
    /\ ev.cmd = "leave" /\ ev.msg = "NotConnected" /\ ~HasSession(ev.guild)
    /\ \E h \in Guilds \ {ev.guild} : State(h) = "Playing"

\* C12: the scenario, one command at a time on guild g with a caller in
\* channelA, holds step by step: join from no session registers an Idle
\* session on channelA, connected once channel.connect() returns; play
\* from Idle suspends at the resolver (Resolving) and, when the resolver
\* returns a track, is Playing with that track; a second play sends
\* AlreadyPlaying and changes nothing; pause gives Paused and resume gives
\* Playing with the same track; leave removes the session and closes its
\* transport.
C12_SequentialScenario ==
    [][\A g \in Guilds :
          /\ (~HasSession(g) /\ tasks = EmptyBag /\ join(g, "channelA"))
                => /\ HasSession(g)' /\ State(g)' = "Idle"
                   /\ Live(g)' = {voice_clients'[g]}
                   /\ clients'[voice_clients'[g]].channel = "channelA"
          /\ \A t \in BagToSet(tasks) :
                (/\ tasks = SetToBag({t}) /\ t.cmd = "join" /\ t.guild = g
                 /\ t.cl = voice_clients[g] /\ ConnectDone(t))
                   => /\ ev'.msg = "Connected" /\ State(g)' = "Idle"
                      /\ voice_clients'[g] = t.cl /\ is_connected(clients', t.cl)
                      /\ clients'[t.cl].channel = clients[t.cl].channel
          /\ (/\ State(g) = "Idle" /\ tasks = EmptyBag
              /\ StepOf("play", g, "call"))
                => /\ State(g)' = "Resolving" /\ CurrentTrack(g)' = NoTrack
                   /\ ~ev'.done /\ voice_clients'[g] = voice_clients[g]
          /\ \A t \in BagToSet(tasks), r \in Resolutions :
                (/\ tasks = SetToBag({t}) /\ t.guild = g /\ State(g) = "Resolving"
                 /\ r.ok /\ Resolved(t, r))
                   => /\ ev'.msg = "NowPlaying" /\ State(g)' = "Playing"
                      /\ CurrentTrack(g)' = r.track
          /\ (State(g) = "Playing" /\ tasks = EmptyBag /\ StepOf("play", g, "call"))
                => /\ ev'.msg = "AlreadyPlaying" /\ ev'.done
                   /\ UNCHANGED <<voice_clients, clients, tasks>>
          /\ (State(g) = "Playing" /\ StepOf("pause", g, "call"))
                => State(g)' = "Paused" /\ CurrentTrack(g)' = CurrentTrack(g)
          /\ (State(g) = "Paused" /\ StepOf("resume", g, "call"))
                => State(g)' = "Playing" /\ CurrentTrack(g)' = CurrentTrack(g)
          /\ (State(g) = "Playing" /\ tasks = EmptyBag /\ StepOf("leave", g, "call"))
                => /\ State(g)' = "Removed" /\ Live(g)' = {}
                   /\ ~is_connected(clients', voice_clients[g])]_vars

\* The scenario after its second play: refused, with the session still
\* Playing the resolved track on channelA and nothing suspended.
C12_Witness ==
    /\ ev.cmd = "play" /\ ev.at = "call" /\ ev.msg = "AlreadyPlaying"
    /\ State(ev.guild) = "Playing" /\ CurrentTrack(ev.guild) # NoTrack
    /\ clients[voice_clients[ev.guild]].channel = "channelA"
    /\ tasks = EmptyBag

\* C13: for every backend result with an 'entries' list that a play() is
\* completed with: if the list is empty, from_url fails on the missing
\* first entry, the play() sends ResolutionFailed and no client gets a
\* track or a player; if it has several entries, a track bound in that
\* step is the one of entries[0], never that of a later, different entry.
C13_FirstEntryOnly ==
    [][\A t \in BagToSet(tasks), res \in ExtractInfo :
          (res.kind = "entries" /\ Resolved(t, from_url(res)))
              => /\ Len(res.entries) = 0 =>
                       /\ ~from_url(res).ok /\ Raised(res) = "IndexError"
                       /\ ev'.msg = "ResolutionFailed"
                       /\ \A c \in Clients :
                             /\ clients'[c].track = clients[c].track
                             /\ clients'[c].player = clients[c].player
                 /\ Len(res.entries) > 1 =>
                       /\ \A c \in Clients :
                             clients'[c].track # clients[c].track
                                => clients'[c].track = Title(res.entries[1])
                       /\ ev'.msg = "NowPlaying" =>
                             /\ CurrentTrack(t.guild)' = Title(res.entries[1])
                             /\ \A k \in 2..Len(res.entries) :
                                   Title(res.entries[k]) # Title(res.entries[1])
                                      => CurrentTrack(t.guild)' # Title(res.entries[k])]_vars

\* A play() has just started the track of a result with several entries
\* whose first entry is not its last.
C13_Witness ==
    /\ ev.cmd = "play" /\ ev.at = "resolved" /\ ev.msg = "NowPlaying"
    /\ \E res \in ExtractInfo :
          /\ res.kind = "entries" /\ Len(res.entries) > 1
          /\ res.entries[1].n # res.entries[Len(res.entries)].n
          /\ from_url(res).ok /\ CurrentTrack(ev.guild) = from_url(res).track

\* The state with guild g taken out: no client registered for it, none of
\* its clients created.
WithoutRegistry(g) == unregister(voice_clients, g)
WithoutClients(g) == [c \in Clients |-> IF c[1] = g THEN FreshClient ELSE clients[c]]

\* C14: the sessions of different guilds are independent.  A step for
\* guild g (a command, a completion of channel.connect() or of the
\* resolver, a stream end) leaves the registry entry, the clients, the
\* suspended invocations, the state and the track of every other guild h
\* unchanged; and a command for h issued while g is Resolving has the
\* result it has on the state with g taken out.
C14_GuildsIndependent ==
    [][\A g \in Guilds, h \in Guilds :
          g # h =>
             /\ ev'.guild = g =>
                   /\ voice_clients'[h] = voice_clients[h]
                   /\ \A c \in Clients : c[1] = h => clients'[c] = clients[c]
                   /\ \A t \in BagToSet(tasks) \cup BagToSet(tasks') :
                         t.guild = h => CopiesIn(t, tasks') = CopiesIn(t, tasks)
                   /\ State(h)' = State(h) /\ CurrentTrack(h)' = CurrentTrack(h)
             /\ (Resolving(g) /\ ev'.guild = h /\ ev'.at = "call") =>
                   LET vcs == WithoutRegistry(g)
                       cls == WithoutClients(g)
                       ofH(f) == [c \in {d \in Clients : d[1] = h} |-> f[c]]
                   IN /\ ev'.cmd = "pause" =>
                            /\ ev'.msg = pause_result(vcs, cls, h).msg
                            /\ ofH(clients') = ofH(pause_result(vcs, cls, h).clients)
                      /\ ev'.cmd = "resume" =>
                            /\ ev'.msg = resume_result(vcs, cls, h).msg
                            /\ ofH(clients') = ofH(resume_result(vcs, cls, h).clients)
                      /\ ev'.cmd = "leave" =>
                            /\ ev'.msg = leave_result(vcs, cls, h).msg
                            /\ voice_clients'[h] = leave_result(vcs, cls, h).voice_clients[h]
                      /\ ev'.cmd = "play" =>
                            /\ (ev'.msg = "AlreadyPlaying") = (PlayCheck(vcs, cls, h) = "busy")
                            /\ ev'.fault => PlayCheck(vcs, cls, h) = "fault"
                      /\ ev'.cmd = "join" =>
                            (voice_clients'[h] # voice_clients[h])
                               = (vcs[h] = NoClient /\ ev'.msg # "NotInVoiceChannel")]_vars

\* A pause() has just been served for one guild while another guild's
\* play() is awaiting the resolver.
C14_Witness ==
    /\ ev.cmd = "pause" /\ ev.msg = "Paused" /\ State(ev.guild) = "Paused"
    /\ \E g \in Guilds \ {ev.guild} : State(g) = "Resolving"

\* The resolutions in flight for the present session of guild g.
InFlight(g) ==
    BagCardinality([t \in {u \in BagToSet(tasks) : u.pc = "resolve"
                                                   /\ u.cl = voice_clients[g]}
                      |-> CopiesIn(t, tasks)])

\* C15: a session is in at most one of the activities Resolving, Playing,
\* Paused: it never has more than one resolution in flight, and none
\* while its client is playing or paused.
C15_OneActivity ==
    \A g \in Guilds :
        HasSession(g) =>
            /\ InFlight(g) <= 1
            /\ (is_playing(clients, voice_clients[g]) \/ is_paused(clients, voice_clients[g]))
                  => InFlight(g) = 0

\* C16: a resolved track is never started on a client that is playing or
\* paused: the completion of a play() on such a client starts nothing and
\* leaves the client's player and track as they are.
C16_NoStartOnActiveTransport ==
    [][\A t \in BagToSet(tasks), r \in Resolutions :
          (/\ Resolved(t, r) /\ HasSession(t.guild)
           /\ \/ is_playing(clients, voice_clients[t.guild])
              \/ is_paused(clients, voice_clients[t.guild]))
              => /\ ev'.msg # "NowPlaying"
                 /\ clients'[voice_clients[t.guild]].player
                       = clients[voice_clients[t.guild]].player
                 /\ clients'[voice_clients[t.guild]].track
                       = clients[voice_clients[t.guild]].track]_vars

\* C17: after every step, a session that is Idle holds no track; one that
\* is Playing or Paused holds a track, which is the one the resolver
\* returned to the play() that started the stream in this step, or else
\* the one it held before; and the end of the stream, a failure of the
\* resolver and leave() each leave the guild without a current track.
C17_TrackFollowsState ==
    [][\A g \in Guilds :
          /\ State(g)' = "Idle" => CurrentTrack(g)' = NoTrack
          /\ State(g)' \in {"Playing", "Paused"} =>
                /\ CurrentTrack(g)' # NoTrack
                /\ IF StepOf("play", g, "resolved") /\ ev'.msg = "NowPlaying"
                   THEN \E t \in BagToSet(tasks), r \in Resolutions :
                           /\ t.guild = g /\ r.ok /\ Resolved(t, r)
                           /\ CurrentTrack(g)' = r.track
                   ELSE CurrentTrack(g)' = CurrentTrack(g)
          /\ StepOf("none", g, "stream_end") => CurrentTrack(g)' = NoTrack
          /\ StepOf("leave", g, "call") => CurrentTrack(g)' = NoTrack
          /\ (\E t \in BagToSet(tasks), r \in Resolutions :
                 t.guild = g /\ ~r.ok /\ Resolved(t, r))
                => CurrentTrack(g)' = NoTrack]_vars

\* C18: with a resolver that always returns or fails, no session stays
\* Resolving forever: a session that is Resolving is eventually Playing,
\* Idle or Removed.
C18_ResolvingEnds ==
    \A g \in Guilds :
        (State(g) = "Resolving") ~> (State(g) \in {"Playing", "Idle", "Removed"})

\* C19: join() by a caller in channel c on a guild that has a session
\* moves that session's client to c: the registry and the set of open
\* transports are as before (no second session), the connection, the
\* state and the current track of the session are unchanged, nothing is
\* suspended and the invocation ends.
C19_JoinMovesSession ==
    [][\A g \in Guilds, c \in Channels :
          (HasSession(g) /\ join(g, c))
              => /\ UNCHANGED <<voice_clients, tasks>>
                 /\ Live(g)' = Live(g)
                 /\ clients'[voice_clients[g]].channel = c
                 /\ clients'[voice_clients[g]].conn = clients[voice_clients[g]].conn
                 /\ State(g)' = State(g) /\ CurrentTrack(g)' = CurrentTrack(g)
                 /\ \A d \in Clients \ {voice_clients[g]} : clients'[d] = clients[d]
                 /\ ev'.done /\ ~ev'.fault]_vars

\* A join() has just moved a session that is Paused, and holds a track,
\* to channelB.
C19_Witness ==
    /\ ev.cmd = "join" /\ ev.at = "call" /\ ev.done
    /\ State(ev.guild) = "Paused" /\ CurrentTrack(ev.guild) # NoTrack
    /\ clients[voice_clients[ev.guild]].channel = "channelB"

\* The session of guild g is connected to channel ch with no player, and
\* one play() awaits the resolver for it, nothing else being suspended.
ResolvingOn(vcs, cls, tk, g, ch) ==
    /\ vcs[g] # NoClient
    /\ cls[vcs[g]] = [channel |-> ch, conn |-> "connected", player |-> "none",
                      track |-> NoTrack]
    /\ tk = SetToBag({Task("resolve", "play", g, vcs[g])})

\* C20: play() for a guild with no session by a caller in channel c joins
\* first: it registers the client that join(c) would, an Idle session on
\* c; when channel.connect() returns it goes on to the resolver and the
\* session is Resolving on c, which is the state a play() ends in when it
\* is issued on the Idle session an explicit join(c) has connected.
C20_AutoJoinLikeExplicitJoin ==
    [][\A g \in Guilds, c \in Channels :
          /\ (~HasSession(g) /\ tasks = EmptyBag /\ play(g, c))
                => /\ JoinBranch(voice_clients, g, c) = "connect"
                   /\ voice_clients' = register(voice_clients, g, NewClient(g))
                   /\ clients' = connect(clients, NewClient(g), c)
                   /\ State(g)' = "Idle" /\ ~ev'.done /\ ~ev'.fault
          /\ \A t \in BagToSet(tasks) :
                (/\ tasks = SetToBag({t}) /\ t.cmd = "play" /\ t.guild = g
                 /\ t.cl = voice_clients[g] /\ clients[t.cl].channel = c
                 /\ ConnectDone(t))
                   => /\ ev'.msg = "Connected" /\ State(g)' = "Resolving"
                      /\ ResolvingOn(voice_clients', clients', tasks', g, c)
          /\ (/\ tasks = EmptyBag /\ State(g) = "Idle"
              /\ is_connected(clients, voice_clients[g])
              /\ clients[voice_clients[g]].channel = c
              /\ StepOf("play", g, "call"))
                => /\ State(g)' = "Resolving"
                   /\ ResolvingOn(voice_clients', clients', tasks', g, c)]_vars

\* A play() that joined by itself has just gone on to the resolver: its
\* session is Resolving, connected, with nothing else suspended.
C20_Witness ==
    /\ ev.cmd = "play" /\ ev.at = "connected" /\ ev.msg = "Connected"
    /\ State(ev.guild) = "Resolving"
    /\ \E c \in Channels : ResolvingOn(voice_clients, clients, tasks, ev.guild, c)

====
